---- MODULE Spec2Model ----
(***************************************************************************)
(* Model of the snapshot-testing helper of snapshot.go: the configuration, *)
(* the on-disk snapshot store, the unified diff of the stored and the      *)
(* actual bytes, and the create / compare / update decision of             *)
(* Config.Assert.                                                          *)
(*                                                                         *)
(* Strings and byte slices are sequences of one-character strings.  The    *)
(* file system is one snapshot directory (present or not) and the files    *)
(* in it, keyed by file name.                                              *)
(***************************************************************************)
EXTENDS Integers, Sequences, FiniteSets, TLC

(***************************************************************************)
(* Bounds of the model.                                                    *)
(***************************************************************************)
\* longest byte slice handed to Assert (and so the longest stored snapshot)
MaxLen == 1

\* the bytes that occur in the asserted values
Alphabet == {"a", "\n"}

RECURSIVE SeqsUpTo(_, _)
SeqsUpTo(S, n) ==
    IF n = 0 THEN {<<>>}
    ELSE LET shorter == SeqsUpTo(S, n - 1)
         IN  shorter \cup {Append(s, x) : s \in shorter, x \in S}

\* the byte slices a test may assert
Bytes == SeqsUpTo(Alphabet, MaxLen)

Min(x, y) == IF x < y THEN x ELSE y
Max(x, y) == IF x > y THEN x ELSE y

\* s[from+1 .. to] in the zero-based half-open indexing of Go slices: s[from:to]
Slice(s, from, to) == SubSeq(s, from + 1, to)

RECURSIVE Concat(_)
Concat(ss) == IF ss = <<>> THEN <<>> ELSE Head(ss) \o Concat(Tail(ss))

\* does pat occur in text as a contiguous substring
Contains(text, pat) ==
    \E i \in 0..(Len(text) - Len(pat)) : Slice(text, i, i + Len(pat)) = pat

(***************************************************************************)
(* Text constants of the source.                                           *)
(***************************************************************************)
DefaultExtension ==
    <<".", "s", "n", "a", "p">>
DefaultContext == 10
SnapDir ==
    <<"/", "w", "d", "/", "_", "_", "s", "n", "a", "p", "s", "h", "o", "t", "s", "_", "_">>
MsgNoDirectory ==
    <<"N", "o", " ", "s", "n", "a", "p", "s", "h", "o", "t", " ", "d", "i", "r", "e", "c", "t", "o", "r", "y", " ", "e", "x", "i", "s", "t", "s", " ", "a", "n", "d", " ", "U", "P", "D", "A", "T", "E", "_", "S", "N", "A", "P", "S", "H", "O", "T", "S", "=", "f", "a", "l", "s", "e", ".", " ", " ", "F", "a", "i", "l", "i", "n", "g", ".">>
MsgMkdirFailed ==
    <<"U", "n", "a", "b", "l", "e", " ", "t", "o", " ", "c", "r", "e", "a", "t", "e", " ", "t", "h", "e", " ", "s", "n", "a", "p", "s", "h", "o", "t", " ", "d", "i", "r", "e", "c", "t", "o", "r", "y", ",", " ", "f", "a", "i", "l", "i", "n", "g">>
MsgCreateFailed ==
    <<"U", "n", "a", "b", "l", "e", " ", "t", "o", " ", "c", "r", "e", "a", "t", "e", " ", "s", "n", "a", "p", "s", "h", "o", "t", ":", " ">>
MsgFailedFor ==
    <<"S", "n", "a", "p", "s", "h", "o", "t", " ", "t", "e", "s", "t", " ", "f", "a", "i", "l", "e", "d", " ", "f", "o", "r", ":", " ">>
MsgDiffFailed ==
    <<"U", "n", "a", "b", "l", "e", " ", "t", "o", " ", "c", "o", "m", "p", "a", "r", "e", " ", "s", "n", "a", "p", "s", "h", "o", "t", " ", "t", "o", " ", "t", "e", "s", "t", " ", "o", "u", "t", "p", "u", "t", ":", " ">>
MsgDiffIs ==
    <<".", " ", " ", "D", "i", "f", "f", ":", "\n", "\n">>
MsgUndiffable ==
    <<".", " ", " ", "D", "i", "f", "f", ":", " ", "(", "u", "n", "d", "i", "f", "f", "a", "b", "l", "e", " ", "b", "i", "n", "a", "r", "y", " ", "f", "o", "r", "m", "a", "t", ")">>
FromFile ==
    <<"E", "x", "p", "e", "c", "t", "e", "d">>
ToFile ==
    <<"R", "e", "c", "e", "i", "v", "e", "d">>
Upper ==
    <<"A", "B", "C", "D", "E", "F", "G", "H", "I", "J", "K", "L", "M", "N", "O", "P", "Q", "R", "S", "T", "U", "V", "W", "X", "Y", "Z">>
Lower ==
    <<"a", "b", "c", "d", "e", "f", "g", "h", "i", "j", "k", "l", "m", "n", "o", "p", "q", "r", "s", "t", "u", "v", "w", "x", "y", "z">>
\* the old strings of the strings.NewReplacer call
Replaced ==
    {"'", " ", "<", ">", "&", "#", "/", "\\"}

\* the operating system's error texts for a failed create, write and close
ErrCreate ==
    <<"p", "e", "r", "m", "i", "s", "s", "i", "o", "n", " ", "d", "e", "n", "i", "e", "d">>
ErrWrite ==
    <<"n", "o", " ", "s", "p", "a", "c", "e", " ", "l", "e", "f", "t", " ", "o", "n", " ", "d", "e", "v", "i", "c", "e">>
ErrClose ==
    <<"i", "n", "p", "u", "t", "/", "o", "u", "t", "p", "u", "t", " ", "e", "r", "r", "o", "r">>

(***************************************************************************)
(* Snapshot identity: getSnapFilename.                                     *)
(***************************************************************************)
\* the lower-case letter of every upper-case letter
LowerOf ==
    [ch \in {Upper[i] : i \in 1..Len(Upper)} |->
        Lower[CHOOSE i \in 1..Len(Upper) : Upper[i] = ch]]

ToLowerChar_asGiven(ch) == ch

ToLowerChar(ch) == IF ch \in DOMAIN LowerOf THEN LowerOf[ch] ELSE ch

ToLower(s) == [i \in 1..Len(s) |-> ToLowerChar(s[i])]

ReplaceChar_colonToo(ch) == IF ch \in Replaced \cup {":"} THEN "-" ELSE ch

ReplaceChar(ch) == IF ch \in Replaced THEN "-" ELSE ch

Replace(s) == [i \in 1..Len(s) |-> ReplaceChar(s[i])]

getSnapFilename(testname, ext) == Replace(ToLower(testname)) \o ext

\* path.Join(dir, file) for a file name without separators
PathJoin(dir, file) == dir \o <<"/">> \o file

(***************************************************************************)
(* The tests of the run and the files they map to.                         *)
(***************************************************************************)
\* "A b" and "a/B" collide on a-b.snap; "T" has a file of its own
TestNames ==
    { <<"T">>, <<"A", " ", "b">>, <<"a", "/", "B">> }

Extensions == {DefaultExtension}

FileNames == {getSnapFilename(n, e) : n \in TestNames, e \in Extensions}

\* content of a path at which no file exists
NoFile == <<"ENOENT">>

(***************************************************************************)
(* I/O failures the operating system may inject into one call:             *)
(* read: ioutil.ReadFile fails although the file exists;                   *)
(* wr:   the step of the write path that fails, if any.                    *)
(***************************************************************************)
WriteFaults == {"ok", "mkdir", "create", "write", "close"}

\* short: the number of bytes that reached the file when Write fails
Faults ==
    {f \in [read : BOOLEAN, wr : WriteFaults, short : 0..(MaxLen - 1)] :
        /\ f.wr # "write" => f.short = 0
        /\ f.wr = "mkdir" => ~f.read}

NoFault == [read |-> FALSE, wr |-> "ok", short |-> 0]

(***************************************************************************)
(* Snapshot store: createSnapshot and readSnapshot.                        *)
(***************************************************************************)
createSnapshot_empty(fls, testname, b, dir, ext, flt) ==
    LET snapFile == getSnapFilename(testname, ext)
    IN  [files |-> [fls EXCEPT ![snapFile] = <<>>], err |-> <<>>]

createSnapshot_wrongFile(fls, testname, b, dir, ext, flt) ==
    LET snapFile == getSnapFilename(testname, ext)
        other    == CHOOSE f \in FileNames : f # snapFile
    IN  [files |-> [fls EXCEPT ![other] = b], err |-> <<>>]

createSnapshot(fls, testname, b, dir, ext, flt) ==
    LET snapFile == getSnapFilename(testname, ext)
        p        == PathJoin(dir, snapFile)
    IN  IF flt.wr = "create"
        THEN \* os.Create failed: nothing was opened or truncated
             [files |-> fls,
              err   |-> <<"o", "p", "e", "n", " ">> \o p \o <<":", " ">> \o ErrCreate]
        ELSE IF flt.wr = "write"
        THEN \* the file was created or truncated, and only a prefix was written
             [files |-> [fls EXCEPT ![snapFile] = Slice(b, 0, Min(flt.short, Len(b)))],
              err   |-> <<"w", "r", "i", "t", "e", " ">> \o p \o <<":", " ">> \o ErrWrite]
        ELSE IF flt.wr = "close"
        THEN [files |-> [fls EXCEPT ![snapFile] = b],
              err   |-> <<"c", "l", "o", "s", "e", " ">> \o p \o <<":", " ">> \o ErrClose]
        ELSE [files |-> [fls EXCEPT ![snapFile] = b], err |-> <<>>]

readSnapshot(fls, testname, dir, ext, flt) ==
    LET snapFile == getSnapFilename(testname, ext)
    IN  IF fls[snapFile] = NoFile \/ flt.read
        THEN [data |-> <<>>, err |-> TRUE]
        ELSE [data |-> fls[snapFile], err |-> FALSE]

(***************************************************************************)
(* Update mode: isUpdateable.  The environment holds zero or one value of  *)
(* UPDATE_SNAPSHOTS: <<>> when the variable is unset, <<v>> when it is v.  *)
(***************************************************************************)
isUpdateable_truthy(e) == e # <<>> /\ e[1] \notin {"", "false"}

isUpdateable_nonEmpty(e) == e # <<>> /\ e[1] # ""

isUpdateable(e) == e # <<>>

(***************************************************************************)
(* Diff engine: getDiff, with the line splitting, the matching blocks, the *)
(* opcodes, their grouping around the context lines and the rendering of   *)
(* the unified diff that the difflib calls of getDiff perform.             *)
(***************************************************************************)
\* strings.SplitAfter(s, "\n")
RECURSIVE SplitAfter(_)
SplitAfter(s) ==
    IF \E i \in 1..Len(s) : s[i] = "\n"
    THEN LET i == CHOOSE k \in 1..Len(s) :
                      s[k] = "\n" /\ \A m \in 1..(k - 1) : s[m] # "\n"
         IN  <<SubSeq(s, 1, i)>> \o SplitAfter(SubSeq(s, i + 1, Len(s)))
    ELSE <<s>>

\* difflib.SplitLines: the last piece gets a newline appended
SplitLines(s) ==
    LET lines == SplitAfter(s)
    IN  [lines EXCEPT ![Len(lines)] = @ \o <<"\n">>]

\* length of the longest common run of a[i:ahi] and b[j:bhi] that starts at i, j
RECURSIVE RunLen(_, _, _, _, _, _)
RunLen(a, b, i, j, ahi, bhi) ==
    IF i < ahi /\ j < bhi /\ a[i + 1] = b[j + 1]
    THEN 1 + RunLen(a, b, i + 1, j + 1, ahi, bhi)
    ELSE 0

\* SequenceMatcher.findLongestMatch without junk: the longest block, and
\* among the longest the one that starts earliest in a, then earliest in b
findLongestMatch(a, b, alo, ahi, blo, bhi) ==
    LET starts == {<<i, j>> \in (alo..(ahi - 1)) \X (blo..(bhi - 1)) :
                       a[i + 1] = b[j + 1]}
    IN  IF starts = {}
        THEN [A |-> alo, B |-> blo, Size |-> 0]
        ELSE LET size(p) == RunLen(a, b, p[1], p[2], ahi, bhi)
                 best == CHOOSE p \in starts :
                            \A q \in starts :
                               \/ size(p) > size(q)
                               \/ /\ size(p) = size(q)
                                  /\ \/ p[1] < q[1]
                                     \/ p[1] = q[1] /\ p[2] <= q[2]
             IN  [A |-> best[1], B |-> best[2], Size |-> size(best)]

\* the recursion of SequenceMatcher.GetMatchingBlocks, in order of position:
\* the blocks left of the longest match m, then m, then the blocks right of it
RECURSIVE matchBlocks(_, _, _, _, _, _)
RECURSIVE matchAround(_, _, _, _, _, _, _)
matchAround(a, b, alo, ahi, blo, bhi, m) ==
    IF m.Size = 0
    THEN <<>>
    ELSE (IF alo < m.A /\ blo < m.B
          THEN matchBlocks(a, b, alo, m.A, blo, m.B) ELSE <<>>)
         \o <<m>>
         \o (IF m.A + m.Size < ahi /\ m.B + m.Size < bhi
             THEN matchBlocks(a, b, m.A + m.Size, ahi, m.B + m.Size, bhi)
             ELSE <<>>)

matchBlocks(a, b, alo, ahi, blo, bhi) ==
    matchAround(a, b, alo, ahi, blo, bhi,
                findLongestMatch(a, b, alo, ahi, blo, bhi))

\* adjacent blocks are collapsed into one
adjacent(x, y) == x.A + x.Size = y.A /\ x.B + x.Size = y.B

RECURSIVE collapse(_)
collapse(blocks) ==
    IF Len(blocks) < 2
    THEN blocks
    ELSE IF adjacent(blocks[1], blocks[2])
    THEN collapse(<<[blocks[1] EXCEPT !.Size = @ + blocks[2].Size]>>
                  \o SubSeq(blocks, 3, Len(blocks)))
    ELSE <<blocks[1]>> \o collapse(Tail(blocks))

\* SequenceMatcher.GetMatchingBlocks: the blocks and the closing sentinel
GetMatchingBlocks(a, b) ==
    Append(collapse(matchBlocks(a, b, 0, Len(a), 0, Len(b))),
           [A |-> Len(a), B |-> Len(b), Size |-> 0])

OpCode(tag, i1, i2, j1, j2) ==
    [Tag |-> tag, I1 |-> i1, I2 |-> i2, J1 |-> j1, J2 |-> j2]

\* the loop of SequenceMatcher.GetOpCodes, (i, j) being how far a and b are done
\* the opcodes that lead from (i, j) to the end of the matching block m
blockCodes(m, i, j) ==
    (IF i < m.A /\ j < m.B THEN <<OpCode("r", i, m.A, j, m.B)>>
     ELSE IF i < m.A THEN <<OpCode("d", i, m.A, j, m.B)>>
     ELSE IF j < m.B THEN <<OpCode("i", i, m.A, j, m.B)>>
     ELSE <<>>)
    \o (IF m.Size > 0
        THEN <<OpCode("e", m.A, m.A + m.Size, m.B, m.B + m.Size)>>
        ELSE <<>>)

RECURSIVE opCodesFrom(_, _, _)
opCodesFrom(blocks, i, j) ==
    IF blocks = <<>>
    THEN <<>>
    ELSE blockCodes(Head(blocks), i, j)
         \o opCodesFrom(Tail(blocks), Head(blocks).A + Head(blocks).Size,
                                      Head(blocks).B + Head(blocks).Size)

GetOpCodes(a, b) == opCodesFrom(GetMatchingBlocks(a, b), 0, 0)

\* an equal opcode cut to its last n lines, and to its first n lines
lastLines(c, n) == OpCode(c.Tag, Max(c.I1, c.I2 - n), c.I2, Max(c.J1, c.J2 - n), c.J2)

firstLines(c, n) == OpCode(c.Tag, c.I1, Min(c.I2, c.I1 + n), c.J1, Min(c.J2, c.J1 + n))

\* the loop of SequenceMatcher.GetGroupedOpCodes over the remaining codes
RECURSIVE groupLoop(_, _, _, _)
groupLoop(codes, n, group, groups) ==
    IF codes = <<>>
    THEN IF Len(group) > 0 /\ ~(Len(group) = 1 /\ group[1].Tag = "e")
         THEN Append(groups, group)
         ELSE groups
    ELSE IF Head(codes).Tag = "e" /\ Head(codes).I2 - Head(codes).I1 > n + n
    THEN groupLoop(Tail(codes), n, <<lastLines(Head(codes), n)>>,
                   Append(groups, Append(group, firstLines(Head(codes), n))))
    ELSE groupLoop(Tail(codes), n, Append(group, Head(codes)), groups)

\* no opcodes at all stand for one equal line
orOneEqual(codes) == IF codes = <<>> THEN <<OpCode("e", 0, 1, 0, 1)>> ELSE codes

\* leading and trailing equal opcodes keep n lines of context
fixLeading(codes, n) ==
    IF codes[1].Tag = "e" THEN [codes EXCEPT ![1] = lastLines(@, n)] ELSE codes

fixTrailing(codes, n) ==
    IF codes[Len(codes)].Tag = "e"
    THEN [codes EXCEPT ![Len(codes)] = firstLines(@, n)]
    ELSE codes

groupCodes(codes, n) == groupLoop(fixTrailing(fixLeading(codes, n), n), n, <<>>, <<>>)

GetGroupedOpCodes(a, b, context) ==
    groupCodes(orOneEqual(GetOpCodes(a, b)), IF context < 0 THEN 3 ELSE context)

\* fmt.Sprintf("%d", n) for n >= 0
Digits == <<"0", "1", "2", "3", "4", "5", "6", "7", "8", "9">>

RECURSIVE Itoa(_)
Itoa(n) ==
    IF n < 10 THEN <<Digits[n + 1]>>
    ELSE Append(Itoa(n \div 10), Digits[(n % 10) + 1])

formatRangeUnified(start, stop) ==
    IF stop - start = 1
    THEN Itoa(start + 1)
    ELSE Itoa(IF stop - start = 0 THEN start ELSE start + 1)
         \o <<",">> \o Itoa(stop - start)

\* the lines an opcode writes: " " for equal, "-" for a's, "+" for b's lines
marked(mark, lines) == Concat([k \in 1..Len(lines) |-> <<mark>> \o lines[k]])

opCodeText(a, b, c) ==
    IF c.Tag = "e"
    THEN marked(" ", Slice(a, c.I1, c.I2))
    ELSE (IF c.Tag \in {"r", "d"}
          THEN marked("-", Slice(a, c.I1, c.I2)) ELSE <<>>)
         \o (IF c.Tag \in {"r", "i"}
             THEN marked("+", Slice(b, c.J1, c.J2)) ELSE <<>>)

\* one hunk: the range line and the lines of the group's opcodes
groupText(a, b, g) ==
    <<"@", "@", " ", "-">> \o formatRangeUnified(g[1].I1, g[Len(g)].I2)
    \o <<" ", "+">> \o formatRangeUnified(g[1].J1, g[Len(g)].J2)
    \o <<" ", "@", "@", "\n">>
    \o Concat([k \in 1..Len(g) |-> opCodeText(a, b, g[k])])

\* difflib.WriteUnifiedDiff: the two file lines once, then every hunk
WriteUnifiedDiff(a, b, fromFile, toFile, groups) ==
    IF groups = <<>>
    THEN <<>>
    ELSE (IF fromFile # <<>> \/ toFile # <<>>
          THEN <<"-", "-", "-", " ">> \o fromFile \o <<"\n">>
               \o <<"+", "+", "+", " ">> \o toFile \o <<"\n">>
          ELSE <<>>)
         \o Concat([k \in 1..Len(groups) |-> groupText(a, b, groups[k])])

GetUnifiedDiffString(a, b, fromFile, toFile, context) ==
    WriteUnifiedDiff(a, b, fromFile, toFile, GetGroupedOpCodes(a, b, context))

getDiff_swapped(expected, b, context) ==
    [diff |-> GetUnifiedDiffString(SplitLines(b), SplitLines(expected),
                                   FromFile, ToFile, context),
     err  |-> FALSE]

\* getDiff: the rendering goes to a buffer in memory, so err is always nil
getDiff(expected, b, context) ==
    [diff |-> GetUnifiedDiffString(SplitLines(expected), SplitLines(b),
                                   FromFile, ToFile, context),
     err  |-> FALSE]

(***************************************************************************)
(* Configuration.  ignore is NoIgnore (a nil pointer) or a compiled        *)
(* pattern; the patterns of the model are literal texts, which match       *)
(* where they occur as a substring.                                        *)
(***************************************************************************)
NoIgnore == <<"nil">>

Ignores == {NoIgnore, <<>>, <<"+", "a">>}

Contexts == {DefaultContext}

Configs ==
    [Directory : {SnapDir}, Context : Contexts, Diffable : BOOLEAN,
     Extension : Extensions, ignore : Ignores]

\* regexp.FindStringIndex: the leftmost match as <<start, end>>, or <<>> for nil
FindStringIndex(re, text) ==
    IF Contains(text, re)
    THEN LET i == CHOOSE k \in 0..(Len(text) - Len(re)) :
                      /\ Slice(text, k, k + Len(re)) = re
                      /\ \A m \in 0..(k - 1) : Slice(text, m, m + Len(re)) # re
         IN  <<i, i + Len(re)>>
    ELSE <<>>

bytesEqual_length(x, y) == Len(x) = Len(y)

\* bytes.Equal
bytesEqual(x, y) == x = y

(***************************************************************************)
(* Construction of the configuration: New and the options.  An option is   *)
(* a closure over its argument; the model keeps the constructor's name and *)
(* the argument.  A result of New is the configuration (NilConfig for      *)
(* nil), the error (<<>> for nil) and the number of options it invoked.    *)
(***************************************************************************)
WorkDir ==
    <<"/", "w", "d">>
SnapshotsName ==
    <<"_", "_", "s", "n", "a", "p", "s", "h", "o", "t", "s", "_", "_">>
ErrGetwd ==
    <<"g", "e", "t", "w", "d", ":", " ", "n", "o", " ", "s", "u", "c", "h", " ", "f", "i", "l", "e", " ", "o", "r", " ", "d", "i", "r", "e", "c", "t", "o", "r", "y">>
ErrRegexp ==
    <<"e", "r", "r", "o", "r", " ", "p", "a", "r", "s", "i", "n", "g", " ", "r", "e", "g", "e", "x", "p", ":", " ">>
ErrMissingParen ==
    <<"m", "i", "s", "s", "i", "n", "g", " ", "c", "l", "o", "s", "i", "n", "g", " ", ")", ":", " ">>
ErrMissingArgument ==
    <<"m", "i", "s", "s", "i", "n", "g", " ", "a", "r", "g", "u", "m", "e", "n", "t", " ", "t", "o", " ", "r", "e", "p", "e", "t", "i", "t", "i", "o", "n", " ", "o", "p", "e", "r", "a", "t", "o", "r", ":", " ">>
MsgNoConfig ==
    <<"U", "n", "a", "b", "l", "e", " ", "t", "o", " ", "c", "r", "e", "a", "t", "e", " ", "n", "e", "w", " ", "s", "n", "a", "p", "s", "h", "o", "t", " ", "c", "o", "n", "f", "i", "g", ":", " ">>

\* the back quote around the pattern in the errors of regexp.Compile (a string
\* of the model cannot hold the character itself)
BackQuote == "BACKQUOTE"

NilConfig == [nil |-> TRUE]

\* os.Getwd: the working directory, or the error of the operating system
GetwdResults == {[dir |-> WorkDir, err |-> <<>>], [dir |-> <<>>, err |-> ErrGetwd]}

SnapDirectory(dir) == [opt |-> "SnapDirectory", arg |-> dir]
ContextLines(n) == [opt |-> "ContextLines", arg |-> n]
Diffable(b) == [opt |-> "Diffable", arg |-> b]
IgnoreRegex(r) == [opt |-> "IgnoreRegex", arg |-> r]
SnapExtension(ext) == [opt |-> "SnapExtension", arg |-> ext]

\* the repetition operators of the pattern syntax
Repetition == {"+", "*", "?"}

\* the text a pattern of literal and backslash-escaped characters matches
RECURSIVE Unescape(_)
Unescape(r) ==
    IF r = <<>> THEN <<>>
    ELSE IF Head(r) = "\\" /\ Len(r) > 1
    THEN <<r[2]>> \o Unescape(SubSeq(r, 3, Len(r)))
    ELSE <<Head(r)>> \o Unescape(Tail(r))

\* is r[i] escaped by a backslash
Escaped(r, i) == i > 1 /\ r[i - 1] = "\\" /\ ~(i > 2 /\ r[i - 2] = "\\")

\* regexp.Compile for the patterns of the model: a repetition operator with
\* nothing to repeat and a parenthesis that is never closed are syntax errors;
\* a pattern of literal and escaped characters compiles to the text it matches
Compile(r) ==
    IF r # <<>> /\ Head(r) \in Repetition
    THEN [re  |-> NoIgnore,
          err |-> ErrRegexp \o ErrMissingArgument \o <<BackQuote, Head(r), BackQuote>>]
    ELSE IF \E i \in 1..Len(r) :
               /\ r[i] = "(" /\ ~Escaped(r, i)
               /\ ~\E j \in (i + 1)..Len(r) : r[j] = ")" /\ ~Escaped(r, j)
    THEN [re  |-> NoIgnore,
          err |-> ErrRegexp \o ErrMissingParen \o <<BackQuote>> \o r \o <<BackQuote>>]
    ELSE [re |-> Unescape(r), err |-> <<>>]

\* the call opt(c) of one option (lines 57-101)
applyOption(o, c) ==
    IF o.opt = "SnapDirectory" THEN [c |-> [c EXCEPT !.Directory = o.arg], err |-> <<>>]
    ELSE IF o.opt = "ContextLines" THEN [c |-> [c EXCEPT !.Context = o.arg], err |-> <<>>]
    ELSE IF o.opt = "Diffable" THEN [c |-> [c EXCEPT !.Diffable = o.arg], err |-> <<>>]
    ELSE IF o.opt = "SnapExtension" THEN [c |-> [c EXCEPT !.Extension = o.arg], err |-> <<>>]
    ELSE IF Compile(o.arg).err # <<>> THEN [c |-> c, err |-> Compile(o.arg).err]
    ELSE [c |-> [c EXCEPT !.ignore = Compile(o.arg).re], err |-> <<>>]

\* the loop over the options (lines 48-52), n options invoked so far
RECURSIVE applyOptions_skipFailing(_, _, _)
applyOptions_skipFailing(c, options, n) ==
    IF options = <<>>
    THEN [c |-> c, err |-> <<>>, applied |-> n]
    ELSE applyOptions_skipFailing(applyOption(Head(options), c).c, Tail(options), n + 1)

RECURSIVE applyOptions(_, _, _)
applyOptions(c, options, n) ==
    IF options = <<>>
    THEN [c |-> c, err |-> <<>>, applied |-> n]
    ELSE IF applyOption(Head(options), c).err # <<>>
    THEN [c |-> NilConfig, err |-> applyOption(Head(options), c).err, applied |-> n + 1]
    ELSE applyOptions(applyOption(Head(options), c).c, Tail(options), n + 1)

\* the configuration New starts from (lines 42-47)
defaults(wd) ==
    [Directory |-> PathJoin(wd, SnapshotsName),
     Context   |-> DefaultContext,
     Diffable  |-> TRUE,
     Extension |-> DefaultExtension,
     ignore    |-> NoIgnore]

New(getwd, options) ==
    IF getwd.err # <<>>
    THEN [c |-> NilConfig, err |-> getwd.err, applied |-> 0]
    ELSE applyOptions(defaults(getwd.dir), options, 0)

(***************************************************************************)
(* Config.Assert.  A call yields the configuration and the file system it  *)
(* leaves, its outcome (PASS when it returns, FATAL when it ends in        *)
(* t.Fatalf), the message of the failure and the log of the functions it   *)
(* called.  The receiver c is only read, so every path leaves it as given. *)
(***************************************************************************)
Result(c, dir, fls, outcome, msg, calls) ==
    [c |-> c, dir |-> dir, files |-> fls, outcome |-> outcome, msg |-> msg,
     calls |-> calls]

Pass(c, dir, fls, calls) == Result(c, dir, fls, "PASS", <<>>, calls)

Fatalf(c, dir, fls, msg, calls) ==
    Result(c, dir, fls, "FATAL", msg, Append(calls, "t.Fatalf"))

\* the directory does not exist (lines 137-150)
AssertNoDirectory_mkdirFirst(fls, e, c, name, b, flt, calls) ==
    IF isUpdateable(e)
    THEN Pass(c, TRUE, createSnapshot(fls, name, b, c.Directory, c.Extension, flt).files,
              calls \o <<"os.MkdirAll", "createSnapshot">>)
    ELSE Fatalf(c, TRUE, fls, MsgNoDirectory, Append(calls, "os.MkdirAll"))

AssertNoDirectory_noFile(fls, e, c, name, b, flt, calls) ==
    IF isUpdateable(e)
    THEN Pass(c, TRUE, fls, Append(calls, "os.MkdirAll"))
    ELSE Fatalf(c, FALSE, fls, MsgNoDirectory, calls)

AssertNoDirectory(fls, e, c, name, b, flt, calls) ==
    IF isUpdateable(e)
    THEN IF flt.wr = "mkdir"
         THEN Fatalf(c, FALSE, fls, MsgMkdirFailed, calls \o <<"os.MkdirAll">>)
         ELSE LET w  == createSnapshot(fls, name, b, c.Directory, c.Extension, flt)
                  cs == calls \o <<"os.MkdirAll", "createSnapshot">>
              IN  IF w.err # <<>>
                  THEN Fatalf(c, TRUE, w.files, MsgCreateFailed \o w.err, cs)
                  ELSE Pass(c, TRUE, w.files, cs)
    ELSE Fatalf(c, FALSE, fls, MsgNoDirectory, calls)

\* the snapshot could not be read (lines 153-158)
AssertFirstRun_readIsFatal(fls, c, name, b, flt, calls) ==
    Fatalf(c, TRUE, fls, MsgCreateFailed, calls)

AssertFirstRun_retry(fls, c, name, b, flt, calls) ==
    LET w == createSnapshot(fls, name, b, c.Directory, c.Extension, flt)
    IN  IF w.err # <<>>
        THEN Pass(c, TRUE,
                  createSnapshot(w.files, name, b, c.Directory, c.Extension, NoFault).files,
                  calls \o <<"createSnapshot", "createSnapshot">>)
        ELSE Pass(c, TRUE, w.files, Append(calls, "createSnapshot"))

AssertFirstRun(fls, c, name, b, flt, calls) ==
    LET w  == createSnapshot(fls, name, b, c.Directory, c.Extension, flt)
        cs == Append(calls, "createSnapshot")
    IN  IF w.err # <<>>
        THEN Fatalf(c, TRUE, w.files, MsgCreateFailed \o w.err, cs)
        ELSE Pass(c, TRUE, w.files, cs)

\* the decision on the computed diff d (lines 172-182)
diffDecision_ignoreWrites(fls, c, name, b, d, flt, calls) ==
    IF c.ignore # NoIgnore /\ FindStringIndex(c.ignore, d.diff) # <<>>
    THEN Pass(c, TRUE, createSnapshot(fls, name, b, c.Directory, c.Extension, flt).files,
              Append(calls, "FindStringIndex"))
    ELSE Fatalf(c, TRUE, fls, MsgFailedFor \o name \o MsgDiffIs \o d.diff, calls)

diffDecision(fls, c, name, b, d, flt, calls) ==
    IF d.err
    THEN Fatalf(c, TRUE, fls, MsgDiffFailed, calls)
    ELSE IF c.ignore # NoIgnore
    THEN IF FindStringIndex(c.ignore, d.diff) # <<>>
         THEN Pass(c, TRUE, fls, Append(calls, "FindStringIndex"))
         ELSE Fatalf(c, TRUE, fls, MsgFailedFor \o name \o MsgDiffIs \o d.diff,
                     Append(calls, "FindStringIndex"))
    ELSE Fatalf(c, TRUE, fls, MsgFailedFor \o name \o MsgDiffIs \o d.diff, calls)

\* the snapshot differs, update mode is off, the output is diffable (lines 170-182)
AssertDiffable(fls, c, name, b, expected, flt, calls) ==
    diffDecision(fls, c, name, b, getDiff(expected, b, c.Context), flt,
                 Append(calls, "getDiff"))

\* the snapshot differs from the actual bytes (lines 162-186)
AssertMismatch_ignoreFirst(fls, e, c, name, b, expected, flt, calls) ==
    IF c.ignore # NoIgnore
       /\ FindStringIndex(c.ignore, getDiff(expected, b, c.Context).diff) # <<>>
    THEN Pass(c, TRUE, fls, calls)
    ELSE Fatalf(c, TRUE, fls, MsgFailedFor \o name \o MsgUndiffable, calls)

AssertMismatch(fls, e, c, name, b, expected, flt, calls) ==
    IF isUpdateable(e)
    THEN LET w  == createSnapshot(fls, name, b, c.Directory, c.Extension, flt)
             cs == Append(calls, "createSnapshot")
         IN  IF w.err # <<>>
             THEN Fatalf(c, TRUE, w.files, MsgCreateFailed \o w.err, cs)
             ELSE Pass(c, TRUE, w.files, cs)
    ELSE IF c.Diffable
    THEN AssertDiffable(fls, c, name, b, expected, flt, calls)
    ELSE Fatalf(c, TRUE, fls, MsgFailedFor \o name \o MsgUndiffable, calls)

\* the whole call (lines 133-187)
ConfigAssert_updateFirst(dir, fls, e, c, name, b, flt) ==
    IF dir /\ isUpdateable(e)
    THEN AssertFirstRun(fls, c, name, b, flt, <<"os.Stat">>)
    ELSE IF dir
    THEN AssertMismatch(fls, e, c, name, b,
                        readSnapshot(fls, name, c.Directory, c.Extension, NoFault).data,
                        flt, <<"os.Stat", "readSnapshot", "bytes.Equal">>)
    ELSE AssertNoDirectory(fls, e, c, name, b, flt, <<"os.Stat">>)

ConfigAssert(dir, fls, e, c, name, b, flt) ==
    IF ~dir
    THEN AssertNoDirectory(fls, e, c, name, b, flt, <<"os.Stat">>)
    ELSE LET r  == readSnapshot(fls, name, c.Directory, c.Extension, flt)
             cs == <<"os.Stat", "readSnapshot">>
         IN  IF r.err
             THEN AssertFirstRun(fls, c, name, b, flt, cs)
             ELSE IF bytesEqual(r.data, b)
             THEN Pass(c, TRUE, fls, Append(cs, "bytes.Equal"))
             ELSE AssertMismatch(fls, e, c, name, b, r.data, flt,
                                 Append(cs, "bytes.Equal"))

(***************************************************************************)
(* Assert, the entry point for any value, with the default configuration.  *)
(* A value is a byte slice or a string; a byte slice is asserted as it is, *)
(* any other value as its dump.                                            *)
(***************************************************************************)
\* the strings a test may assert: one, with a character that its dump escapes
Strings == { <<"a", "\n">> }

Values == [type : {"bytes"}, val : Bytes] \cup [type : {"string"}, val : Strings]

\* strconv.Quote, for the bytes of the model
QuoteChar(ch) == IF ch = "\n" THEN <<"\\", "n">> ELSE <<ch>>

Quote(s) == <<"\"">> \o Concat([i \in 1..Len(s) |-> QuoteChar(s[i])]) \o <<"\"">>

\* spew's Fdump of a string: its type, its length and its quoted text
Fdump(v) ==
    <<"(", "s", "t", "r", "i", "n", "g", ")", " ", "(", "l", "e", "n", "=">>
       \o Itoa(Len(v.val)) \o <<")", " ">> \o Quote(v.val) \o <<"\n">>

\* the bytes handed to Config.Assert (lines 113-123)
serialize_dumpAll(v) == Fdump(v)

serialize(v) == IF v.type = "bytes" THEN v.val ELSE Fdump(v)

\* the whole call (lines 108-125)
AssertValue(dir, fls, e, getwd, name, v, flt) ==
    IF New(getwd, <<>>).err # <<>>
    THEN Fatalf(NilConfig, dir, fls, MsgNoConfig \o New(getwd, <<>>).err, <<"New">>)
    ELSE ConfigAssert(dir, fls, e, New(getwd, <<>>).c, name, serialize(v), flt)

(***************************************************************************)
(* The state machine: the file system, the process environment and the     *)
(* assertion call that the running test made last.                         *)
(***************************************************************************)
VARIABLES
    dirExists,   \* does the snapshot directory exist
    files,       \* file name -> stored bytes, or NoFile
    environ,     \* <<>> when UPDATE_SNAPSHOTS is unset, <<v>> when it is set to v
    last,        \* the last call made, or Idle between two tests
    running      \* the calls in progress of the tests that run in parallel

vars == <<dirExists, files, environ, last, running>>

\* the value UPDATE_SNAPSHOTS is set to: one that reads as a refusal
EnvValues == {"false"}

Idle == [kind |-> "idle"]

\* the goroutines of the tests that run in parallel
Procs == {1, 2}

\* none of them is inside a call
NoneRunning == [p \in Procs |-> [pc |-> "idle"]]

\* no call yet in this test: what a first call records as its predecessor
NoCall == [outcome |-> "none", env |-> <<>>]

Init ==
    /\ dirExists \in BOOLEAN
    /\ files = [f \in FileNames |-> NoFile]
    /\ environ \in {<<>>} \cup {<<v>> : v \in EnvValues}
    /\ last = Idle
    /\ running = NoneRunning

\* the call that gave r leaves r's file system, and is recorded as the last
\* call: the entry point via it was made, the value arg handed to it, the
\* configuration c it was made on and the configuration cAfter it left
Return(r, via, arg, name, b, c, flt, first) ==
    /\ dirExists' = r.dir
    /\ files' = r.files
    /\ last' = [kind    |-> "call",
                via     |-> via,
                arg     |-> arg,
                name    |-> name,
                b       |-> b,
                c       |-> c,
                cAfter  |-> r.c,
                fault   |-> flt,
                env     |-> environ,
                dir0    |-> dirExists,
                files0  |-> files,
                outcome |-> r.outcome,
                msg     |-> r.msg,
                calls   |-> r.calls,
                first   |-> first]
    /\ UNCHANGED <<environ, running>>

\* the operating system fails only an operation that the call makes: the read
\* of a file that exists, the creation of the directory, the creation, write
\* or close of the file; and a Write that fails has written less than all
Effective(r, flt, name, b, c) ==
    /\ flt.read =>
          dirExists /\ files[getSnapFilename(name, c.Extension)] # NoFile
    /\ flt.wr = "mkdir" => \E i \in 1..Len(r.calls) : r.calls[i] = "os.MkdirAll"
    /\ flt.wr \in {"create", "write", "close"} =>
          \E i \in 1..Len(r.calls) : r.calls[i] = "createSnapshot"
    /\ flt.short = 0 \/ flt.short < Len(b)

Record(name, b, c, flt, first) ==
    \E r \in {ConfigAssert(dirExists, files, environ, c, name, b, flt)} :
       /\ Effective(r, flt, name, b, c)
       /\ Return(r, "Config.Assert", [type |-> "bytes", val |-> b], name, b, c, flt, first)

\* a test calls c.Assert(t, b)
Call(name, b, c, flt) ==
    /\ last = Idle
    /\ Record(name, b, c, flt, NoCall)

\* Assert ended before it had a configuration
ReturnNoConfig(r, name, v) ==
    /\ dirExists' = r.dir
    /\ files' = r.files
    /\ last' = [kind    |-> "noconfig",
                via     |-> "Assert",
                arg     |-> v,
                name    |-> name,
                env     |-> environ,
                dir0    |-> dirExists,
                files0  |-> files,
                outcome |-> r.outcome,
                msg     |-> r.msg,
                calls   |-> r.calls]
    /\ UNCHANGED <<environ, running>>

RecordValue(name, v, getwd, flt, first) ==
    \E r \in {AssertValue(dirExists, files, environ, getwd, name, v, flt)} :
       IF getwd.err # <<>>
       THEN ReturnNoConfig(r, name, v)
       ELSE /\ Effective(r, flt, name, serialize(v), New(getwd, <<>>).c)
            /\ Return(r, "Assert", v, name, serialize(v), New(getwd, <<>>).c, flt, first)

\* a test calls snapshot.Assert(t, v); where os.Getwd fails, no other I/O
\* failure is injected
CallValue(name, v, getwd, flt) ==
    /\ last = Idle
    /\ getwd.err # <<>> => flt = NoFault
    /\ RecordValue(name, v, getwd, flt, NoCall)

\* the last call may be followed by the same call once more: it was the
\* first call of its test and met no I/O failure (the model injects I/O
\* failures into single calls; the two calls of a pair run without)
PairOpen == last.kind = "call" /\ last.first = NoCall /\ last.fault = NoFault

\* what the second call of a pair records of the first: its outcome, its
\* environment, and the directory and the file of the test as it met them
First ==
    [outcome |-> last.outcome,
     msg     |-> last.msg,
     calls   |-> last.calls,
     env     |-> last.env,
     dir0    |-> last.dir0,
     stored0 |-> last.files0[getSnapFilename(last.name, last.c.Extension)]]

\* the same assertion is made once more, right after the first
Again ==
    /\ PairOpen
    /\ last.via = "Config.Assert"
    /\ Record(last.name, last.b, last.cAfter, NoFault, First)

AgainValue ==
    /\ PairOpen
    /\ last.via = "Assert"
    /\ RecordValue(last.name, last.arg, [dir |-> WorkDir, err |-> <<>>], NoFault, First)

\* the test is over
Finish ==
    /\ last # Idle
    /\ last' = Idle
    /\ UNCHANGED <<dirExists, files, environ, running>>

\* os.Setenv("UPDATE_SNAPSHOTS", v) by the developer or the test run, between
\* two tests or between the two calls of a pair (where only Finish can follow,
\* a change of the environment is the same change made after Finish)
Setenv(v) ==
    /\ last = Idle \/ PairOpen
    /\ environ # <<v>>
    /\ environ' = <<v>>
    /\ UNCHANGED <<dirExists, files, last, running>>

Unsetenv ==
    /\ last = Idle \/ PairOpen
    /\ environ # <<>>
    /\ environ' = <<>>
    /\ UNCHANGED <<dirExists, files, last, running>>

Next ==
    \/ \E name \in TestNames, b \in Bytes, c \in Configs, flt \in Faults :
          Call(name, b, c, flt)
    \/ Again
    \/ Finish
    \/ \E v \in EnvValues : Setenv(v)
    \/ Unsetenv

Spec == Init /\ [][Next]_vars

(***************************************************************************)
(* The runs of the tests that call snapshot.Assert, with the default       *)
(* configuration; here UPDATE_SNAPSHOTS is also set to the empty string.   *)
(***************************************************************************)
ValueEnvValues == {"", "false"}

ValueInit ==
    /\ dirExists \in BOOLEAN
    /\ files = [f \in FileNames |-> NoFile]
    /\ environ \in {<<>>} \cup {<<v>> : v \in ValueEnvValues}
    /\ last = Idle
    /\ running = NoneRunning

ValueNext ==
    \/ \E name \in TestNames, v \in Values, getwd \in GetwdResults, flt \in Faults :
          CallValue(name, v, getwd, flt)
    \/ AgainValue
    \/ Finish
    \/ \E v \in ValueEnvValues : Setenv(v)
    \/ Unsetenv

ValueSpec == ValueInit /\ [][ValueNext]_vars

(***************************************************************************)
(* The derivation of file names on its own: getSnapFilename applied to two *)
(* test names and an extension.                                            *)
(***************************************************************************)
\* longest test name built from NameAlphabet
NameLen == 2

NameAlphabet == {"A", "a", ":", " ", "/", "."}

\* the characters that occur as a test name of one character
NameChars ==
    Replaced \cup {Upper[i] : i \in 1..Len(Upper)} \cup {Lower[i] : i \in 1..Len(Lower)}
       \cup {":", ".", "-", "_", "0"}

ExampleName ==
    <<"T", "e", "s", "t", ":", " ", "A", "/", "B", " ", "<", "X", ">">>

Names ==
    SeqsUpTo(NameAlphabet, NameLen) \cup {<<ch>> : ch \in NameChars} \cup {ExampleName}

NameExtensions == {DefaultExtension, <<".", "t", "x", "t">>}

NameInit ==
    /\ dirExists = FALSE
    /\ files = [f \in FileNames |-> NoFile]
    /\ environ = <<>>
    /\ last \in [kind : {"names"}, n1 : Names, n2 : Names, ext : NameExtensions]
    /\ running = NoneRunning

\* the file names of the two tests are derived
Derive ==
    /\ last.kind = "names"
    /\ last' = [kind |-> "files",
                n1   |-> last.n1,
                n2   |-> last.n2,
                ext  |-> last.ext,
                f1   |-> getSnapFilename(last.n1, last.ext),
                f2   |-> getSnapFilename(last.n2, last.ext)]
    /\ UNCHANGED <<dirExists, files, environ, running>>

NameNext == Derive

NameSpec == NameInit /\ [][NameNext]_vars

(***************************************************************************)
(* The construction of configurations on its own: New applied to a list of *)
(* options.                                                                *)
(***************************************************************************)
\* longest list of options handed to New
MaxOptions == 2

\* the patterns handed to IgnoreRegex: the empty pattern, an escaped "+a",
\* an open parenthesis, and a "+" with nothing to repeat
Patterns == { <<>>, <<"\\", "+", "a">>, <<"(">>, <<"+", "a">> }

Options ==
    {SnapDirectory(<<"/", "s">>), SnapExtension(<<".", "t", "x", "t">>)}
       \cup {ContextLines(n) : n \in {0, 3}}
       \cup {Diffable(b) : b \in BOOLEAN}
       \cup {IgnoreRegex(r) : r \in Patterns}

NewInit ==
    /\ dirExists = FALSE
    /\ files = [f \in FileNames |-> NoFile]
    /\ environ = <<>>
    /\ last \in [kind : {"options"}, getwd : GetwdResults,
                 options : SeqsUpTo(Options, MaxOptions)]
    /\ running = NoneRunning

\* the test calls snapshot.New(options...)
Construct ==
    /\ last.kind = "options"
    /\ \E r \in {New(last.getwd, last.options)} :
          last' = [kind    |-> "config",
                   getwd   |-> last.getwd,
                   options |-> last.options,
                   c       |-> r.c,
                   err     |-> r.err,
                   applied |-> r.applied]
    /\ UNCHANGED <<dirExists, files, environ, running>>

NewNext == Construct

NewSpec == NewInit /\ [][NewNext]_vars

(***************************************************************************)
(* Two tests that run in parallel and whose names map to one snapshot      *)
(* file, each in a call of Config.Assert with the default configuration.   *)
(* A call proceeds by its calls of the operating system: os.Stat, the read *)
(* of the file, os.MkdirAll, and the os.Create, Write and Close of         *)
(* createSnapshot; any two of them may be interleaved.  No operation       *)
(* fails.  last is the last Write made.                                    *)
(***************************************************************************)
\* longest byte slice asserted by the tests that run in parallel
RaceLen == 2

RaceBytes == SeqsUpTo(Alphabet, RaceLen)

\* the names of the two tests: they collide on one file
RaceNames == << <<"A", " ", "b">>, <<"a", "/", "B">> >>

RaceConfig == New([dir |-> WorkDir, err |-> <<>>], <<>>).c

RaceFile(p) == getSnapFilename(RaceNames[p], RaceConfig.Extension)

RaceInit ==
    /\ dirExists \in BOOLEAN
    /\ files \in {[f \in FileNames |-> IF dirExists /\ f = RaceFile(1) THEN x ELSE NoFile] :
                    x \in {NoFile} \cup RaceBytes}
    /\ environ \in {<<>>} \cup {<<v>> : v \in EnvValues}
    /\ last = Idle
    /\ running = NoneRunning

Goto(p, pc) == running' = [running EXCEPT ![p].pc = pc]

Done(p, outcome) ==
    running' = [running EXCEPT ![p].pc = "done", ![p].outcome = outcome]

\* the test of goroutine p calls c.Assert(t, b)
Begin(p, b) ==
    /\ running[p].pc = "idle"
    /\ running' = [running EXCEPT ![p] = [pc      |-> "stat",
                                          name    |-> RaceNames[p],
                                          b       |-> b,
                                          wrote   |-> FALSE,
                                          outcome |-> "none"]]
    /\ UNCHANGED <<dirExists, files, environ, last>>

\* os.Stat of the directory, and isUpdateable where it is missing (lines 137-149)
Stat(p) ==
    /\ running[p].pc = "stat"
    /\ IF dirExists THEN Goto(p, "read")
       ELSE IF isUpdateable(environ) THEN Goto(p, "mkdir")
       ELSE Done(p, "FATAL")
    /\ UNCHANGED <<dirExists, files, environ, last>>

\* os.MkdirAll (line 139)
MkdirAll(p) ==
    /\ running[p].pc = "mkdir"
    /\ dirExists' = TRUE
    /\ Goto(p, "create")
    /\ UNCHANGED <<files, environ, last>>

\* readSnapshot and the decision on what was read (lines 152-186)
Read(p) ==
    /\ running[p].pc = "read"
    /\ \E r \in {readSnapshot(files, running[p].name, RaceConfig.Directory,
                              RaceConfig.Extension, NoFault)} :
          IF r.err THEN Goto(p, "create")
          ELSE IF bytesEqual(r.data, running[p].b) THEN Done(p, "PASS")
          ELSE IF isUpdateable(environ) THEN Goto(p, "create")
          ELSE Done(p, AssertMismatch(files, environ, RaceConfig, running[p].name,
                                      running[p].b, r.data, NoFault, <<>>).outcome)
    /\ UNCHANGED <<dirExists, files, environ, last>>

\* os.Create: the file is created, or truncated where it exists (line 196)
Create(p) ==
    /\ running[p].pc = "create"
    /\ files' = [files EXCEPT ![RaceFile(p)] = <<>>]
    /\ Goto(p, "write")
    /\ UNCHANGED <<dirExists, environ, last>>

\* the file after b is written at its start: what it held beyond b stays
WriteAtStart(old, b) == b \o SubSeq(old, Len(b) + 1, Len(old))

\* f.Write(b), at the start of the file as this call opened it (line 200)
Write(p) ==
    /\ running[p].pc = "write"
    /\ files' = [files EXCEPT ![RaceFile(p)] = WriteAtStart(@, running[p].b)]
    /\ running' = [running EXCEPT ![p].pc = "close", ![p].wrote = TRUE]
    /\ last' = [kind |-> "write", proc |-> p]
    /\ UNCHANGED <<dirExists, environ>>

\* f.Close, and the return of the call (line 203)
Close(p) ==
    /\ running[p].pc = "close"
    /\ Done(p, "PASS")
    /\ UNCHANGED <<dirExists, files, environ, last>>

RaceNext ==
    \E p \in Procs :
       \/ \E b \in RaceBytes : Begin(p, b)
       \/ Stat(p)
       \/ MkdirAll(p)
       \/ Read(p)
       \/ Create(p)
       \/ Write(p)
       \/ Close(p)

RaceSpec == RaceInit /\ [][RaceNext]_vars

(***************************************************************************)
(* What the claims speak about: the last call, the file of its test, what  *)
(* that file held before the call, and what the call did.                  *)
(***************************************************************************)
Called == last.kind = "call"

\* UPDATE_SNAPSHOTS was present in the environment of the last call
UpdateMode == last.env # <<>>

\* ... and in the environment of the call before it
FirstUpdateMode == last.first.env # <<>>

Passed == last.outcome = "PASS"

Failed == last.outcome = "FATAL"

\* the snapshot file of the calling test
SnapFile == getSnapFilename(last.name, last.c.Extension)

\* the stored bytes before the call
Stored0 == last.files0[SnapFile]

\* before the call the directory and the file existed, and the call could read it
Readable0 == last.dir0 /\ Stored0 # NoFile /\ ~last.fault.read

\* a readable snapshot that differs from the actual bytes
Mismatch0 == Readable0 /\ Stored0 # last.b

\* the call left directory and files as they were
Untouched == dirExists = last.dir0 /\ files = last.files0

\* the call made a call of fn
Did(fn) == \E i \in 1..Len(last.calls) : last.calls[i] = fn

\* the file write of the call (create, write and close) does not fail
WriteOk == last.fault.wr \notin {"create", "write", "close"}

\* the creation of the directory does not fail
MkdirOk == last.fault.wr # "mkdir"

\* the configured ignore pattern matches the diff of stored and actual bytes
IgnoreMatches ==
    /\ last.c.ignore # NoIgnore
    /\ Contains(getDiff(Stored0, last.b, last.c.Context).diff, last.c.ignore)

\* the last call repeats the call before it, which met no I/O failure
Repeated == Called /\ last.first.outcome # "none"

(***************************************************************************)
(* C1: a call passes only if on return the snapshot file of its test holds *)
(* exactly the actual bytes, or the configuration is diffable and its      *)
(* ignore pattern matched the diff; with update mode off and a readable    *)
(* snapshot that differs, it passes only in the second way.                *)
(***************************************************************************)
C1_PassOnlyIfStoredOrIgnored ==
    Called /\ Passed =>
       /\ \/ files[SnapFile] = last.b
          \/ Mismatch0 /\ last.c.Diffable /\ IgnoreMatches
       /\ (~UpdateMode /\ Mismatch0) => (last.c.Diffable /\ IgnoreMatches)

C1_Witness ==
    /\ Called /\ Passed /\ ~UpdateMode /\ Mismatch0
    /\ last.c.Diffable /\ IgnoreMatches
    /\ files[SnapFile] # last.b

(***************************************************************************)
(* C2, as claimed: whatever the snapshot state before, the second of two   *)
(* equal calls with update mode off changes nothing and passes (no I/O     *)
(* failure in either call).                                                *)
(***************************************************************************)
C2_SecondAlwaysPasses ==
    (Repeated /\ ~FirstUpdateMode /\ ~UpdateMode /\ last.fault = NoFault)
    => (Untouched /\ Passed)

(***************************************************************************)
(* C2, amended: the second of two equal calls with update mode off and no  *)
(* I/O failure changes nothing, and it passes if the first call passed.    *)
(***************************************************************************)
C2_SecondRepeatsFirst ==
    (Repeated /\ ~FirstUpdateMode /\ ~UpdateMode /\ last.fault = NoFault)
    => (Untouched /\ last.outcome = last.first.outcome)

C2_Witness ==
    /\ Repeated /\ ~FirstUpdateMode /\ ~UpdateMode /\ last.fault = NoFault
    /\ last.first.outcome = "PASS" /\ Passed /\ Untouched
    /\ files[SnapFile] = last.b

(***************************************************************************)
(* C3: first-run recording.  With the directory present and no file at the *)
(* path of the test, a call whose file write succeeds creates that one     *)
(* file with the actual bytes, changes no other file, and passes, with     *)
(* update mode on or off.                                                  *)
(***************************************************************************)
C3_FirstRunRecords ==
    (Called /\ last.dir0 /\ Stored0 = NoFile /\ WriteOk) =>
       /\ Passed
       /\ dirExists
       /\ files = [last.files0 EXCEPT ![SnapFile] = last.b]
       /\ {f \in FileNames : files[f] # NoFile /\ last.files0[f] = NoFile} = {SnapFile}

C3_Witness ==
    /\ Called /\ last.dir0 /\ Stored0 = NoFile /\ WriteOk
    /\ ~UpdateMode /\ Passed
    /\ \E f \in FileNames : f # SnapFile /\ files[f] # NoFile

(***************************************************************************)
(* C4: update mode overwrite.  With a readable snapshot that differs, a    *)
(* call in update mode whose file write succeeds passes and leaves the     *)
(* file equal to the actual bytes, whatever diffable and ignore are.       *)
(***************************************************************************)
C4_UpdateOverwrites ==
    (Called /\ Mismatch0 /\ UpdateMode /\ WriteOk) =>
       /\ Passed
       /\ files = [last.files0 EXCEPT ![SnapFile] = last.b]

C4_Witness ==
    /\ Called /\ Mismatch0 /\ UpdateMode /\ WriteOk
    /\ ~last.c.Diffable /\ last.c.ignore # NoIgnore
    /\ Passed /\ files[SnapFile] = last.b

(***************************************************************************)
(* C5, as claimed: in update mode every call writes its snapshot file,     *)
(* also when the stored snapshot already equals the actual bytes (no I/O   *)
(* failure in the call).                                                   *)
(***************************************************************************)
C5_UpdateAlwaysWrites ==
    (Called /\ UpdateMode /\ last.fault = NoFault) => Did("createSnapshot")

(***************************************************************************)
(* C5, amended: in update mode a call still reads and compares; it writes  *)
(* its snapshot file unless the stored snapshot is readable and already    *)
(* equals the actual bytes, and then it passes without a write (given the  *)
(* directory, when absent, could be created).                              *)
(***************************************************************************)
C5_UpdateWritesUnlessEqual ==
    (Called /\ UpdateMode /\ MkdirOk) =>
       /\ Did("createSnapshot") <=> ~(Readable0 /\ Stored0 = last.b)
       /\ last.dir0 => Did("readSnapshot")
       /\ (Readable0 /\ Stored0 = last.b) => (Passed /\ Untouched /\ Did("bytes.Equal"))

C5_Witness ==
    /\ Called /\ UpdateMode /\ last.fault = NoFault
    /\ Readable0 /\ Stored0 = last.b
    /\ ~Did("createSnapshot") /\ Passed

(***************************************************************************)
(* C6: with the directory absent and update mode off the call ends in the  *)
(* fatal failure about the missing directory and creates neither the       *)
(* directory nor a file, for every input and configuration.                *)
(***************************************************************************)
C6_NoDirectoryNoUpdateFails ==
    (Called /\ ~last.dir0 /\ ~UpdateMode) =>
       /\ Failed
       /\ last.msg = MsgNoDirectory
       /\ Untouched
       /\ ~dirExists
       /\ \A f \in FileNames : files[f] = NoFile

C6_Witness ==
    /\ Called /\ ~last.dir0 /\ ~UpdateMode
    /\ Failed /\ ~dirExists
    /\ last.c.ignore = <<>> /\ ~last.c.Diffable

(***************************************************************************)
(* C7: with the directory absent and update mode on, a call whose          *)
(* directory and file creation succeed creates the directory and the file  *)
(* with the actual bytes and passes, without reading, comparing or         *)
(* diffing.                                                                *)
(***************************************************************************)
C7_NoDirectoryUpdateCreates ==
    (Called /\ ~last.dir0 /\ UpdateMode /\ MkdirOk /\ WriteOk) =>
       /\ Passed
       /\ dirExists
       /\ files = [last.files0 EXCEPT ![SnapFile] = last.b]
       /\ Did("os.MkdirAll") /\ Did("createSnapshot")
       /\ ~Did("readSnapshot") /\ ~Did("bytes.Equal") /\ ~Did("getDiff")

C7_Witness ==
    /\ Called /\ ~last.dir0 /\ UpdateMode /\ MkdirOk /\ WriteOk
    /\ Passed /\ dirExists /\ files[SnapFile] = last.b

(***************************************************************************)
(* C8: a readable snapshot that differs, update mode off, diffable, no     *)
(* ignore pattern that matches: the call fails, the stored file stays, and *)
(* the message names the test and carries the unified diff: the lines      *)
(* "--- Expected" and "+++ Received", a range line, and then the lines of  *)
(* the stored bytes marked " " or "-" and the lines of the actual bytes    *)
(* marked " " or "+".                                                      *)
(***************************************************************************)
\* the message's part after the test name and ".  Diff:\n\n"
DiffOfMsg ==
    Slice(last.msg,
          Len(MsgFailedFor) + Len(last.name) + Len(MsgDiffIs), Len(last.msg))

\* its lines, every one with its newline
DiffLines == SplitAfter(DiffOfMsg)

\* the lines after the two file lines and the range line
DiffBody == SubSeq(DiffLines, 4, Len(DiffLines) - 1)

IsOld(line) == line[1] \in {" ", "-"}

IsNew(line) == line[1] \in {" ", "+"}

Unmarked(lines) == [k \in 1..Len(lines) |-> Tail(lines[k])]

C8_MismatchFailsWithDiff ==
    (Called /\ Mismatch0 /\ ~UpdateMode /\ last.c.Diffable /\ ~IgnoreMatches) =>
       /\ Failed
       /\ Untouched
       /\ Slice(last.msg, 0, Len(MsgFailedFor) + Len(last.name) + Len(MsgDiffIs))
             = MsgFailedFor \o last.name \o MsgDiffIs
       /\ Len(DiffLines) >= 5
       /\ DiffLines[1] = <<"-", "-", "-", " ">> \o FromFile \o <<"\n">>
       /\ DiffLines[2] = <<"+", "+", "+", " ">> \o ToFile \o <<"\n">>
       /\ Slice(DiffLines[3], 0, 4) = <<"@", "@", " ", "-">>
       /\ DiffLines[Len(DiffLines)] = <<>>
       /\ \A k \in 1..Len(DiffBody) : DiffBody[k][1] \in {" ", "-", "+"}
       /\ Unmarked(SelectSeq(DiffBody, IsOld)) = SplitLines(Stored0)
       /\ Unmarked(SelectSeq(DiffBody, IsNew)) = SplitLines(last.b)

C8_Witness ==
    /\ Called /\ Mismatch0 /\ ~UpdateMode /\ last.c.Diffable
    /\ last.c.ignore # NoIgnore /\ ~IgnoreMatches
    /\ Failed
    /\ \E k \in 1..Len(DiffBody) : DiffBody[k][1] = "-"
    /\ \E k \in 1..Len(DiffBody) : DiffBody[k][1] = "+"

(***************************************************************************)
(* C9: a readable snapshot that differs, update mode off, diffable, and an *)
(* ignore pattern that matches in the diff text: the call passes and the   *)
(* stored file is not overwritten.                                         *)
(***************************************************************************)
C9_IgnoredMismatchPasses ==
    (Called /\ Mismatch0 /\ ~UpdateMode /\ last.c.Diffable /\ IgnoreMatches) =>
       /\ Passed
       /\ Untouched
       /\ files[SnapFile] = Stored0
       /\ ~Did("createSnapshot")

C9_Witness ==
    /\ Called /\ Mismatch0 /\ ~UpdateMode /\ last.c.Diffable /\ IgnoreMatches
    /\ last.c.ignore # <<>>
    /\ Passed /\ files[SnapFile] = Stored0 /\ Stored0 # last.b

(***************************************************************************)
(* C10: a readable snapshot that differs, update mode off, not diffable:   *)
(* the call fails with the undiffable message, computes no diff, does not  *)
(* consult the ignore pattern, and leaves the stored file as it was.       *)
(***************************************************************************)
C10_UndiffableMismatchFails ==
    (Called /\ Mismatch0 /\ ~UpdateMode /\ ~last.c.Diffable) =>
       /\ Failed
       /\ last.msg = MsgFailedFor \o last.name \o MsgUndiffable
       /\ ~Did("getDiff") /\ ~Did("FindStringIndex")
       /\ Untouched

C10_Witness ==
    /\ Called /\ Mismatch0 /\ ~UpdateMode /\ ~last.c.Diffable
    /\ IgnoreMatches
    /\ Failed /\ files[SnapFile] = Stored0

(***************************************************************************)
(* C11: the mode of a call is the presence of UPDATE_SNAPSHOTS in the      *)
(* environment at the time of that call, whatever its value (the empty     *)
(* string and "false" included) and whatever the environment was at the    *)
(* call before: where the mode decides (a missing directory, a readable    *)
(* snapshot that differs), the call whose directory and file creation      *)
(* succeed passes and records the actual bytes exactly when the variable   *)
(* is present.                                                             *)
(***************************************************************************)
C11_ModeFollowsPresence ==
    (Called /\ MkdirOk /\ WriteOk) =>
       /\ ~last.dir0 => (Passed <=> UpdateMode)
       /\ ~last.dir0 => (files[SnapFile] = last.b <=> UpdateMode)
       /\ Mismatch0 => (files[SnapFile] = last.b <=> UpdateMode)
       /\ (Mismatch0 /\ ~(last.c.Diffable /\ IgnoreMatches)) => (Passed <=> UpdateMode)
       /\ (Mismatch0 /\ UpdateMode) => Passed

\* the variable was absent at the first call, which failed, and was set to the
\* empty string before the second, which recorded the snapshot
C11_Witness ==
    /\ Repeated /\ ~FirstUpdateMode /\ last.first.outcome = "FATAL"
    /\ last.env = <<"">>
    /\ ~last.dir0 /\ Passed /\ files[SnapFile] = last.b

(***************************************************************************)
(* C12, as claimed: a byte slice B is handed to Assert while the test has  *)
(* no snapshot file, and then once more: both calls pass and the file      *)
(* holds exactly B (no I/O failure in either call).                        *)
(***************************************************************************)
C12_RoundTripAlwaysPasses ==
    (Repeated /\ last.via = "Assert" /\ last.arg.type = "bytes"
        /\ last.first.stored0 = NoFile) =>
       /\ last.first.outcome = "PASS"
       /\ Passed
       /\ files[SnapFile] = last.arg.val

(***************************************************************************)
(* C12, amended: the same, where at the first call the snapshot directory  *)
(* exists or update mode is on.                                            *)
(***************************************************************************)
C12_RoundTrip ==
    (Repeated /\ last.via = "Assert" /\ last.arg.type = "bytes"
        /\ last.first.stored0 = NoFile
        /\ (last.first.dir0 \/ FirstUpdateMode)) =>
       /\ last.first.outcome = "PASS"
       /\ Passed
       /\ files[SnapFile] = last.arg.val

C12_Witness ==
    /\ Repeated /\ last.via = "Assert" /\ last.arg.type = "bytes"
    /\ last.first.stored0 = NoFile /\ last.first.dir0
    /\ ~FirstUpdateMode /\ ~UpdateMode
    /\ last.arg.val # <<>>
    /\ last.first.outcome = "PASS" /\ Passed /\ files[SnapFile] = last.arg.val

(***************************************************************************)
(* C13, as claimed: the test name "Test: A/B <X>" with the default         *)
(* extension maps to the file name "test---a-b--x-.snap".                  *)
(***************************************************************************)
C13_ExampleAsClaimed ==
    (last.kind = "files" /\ last.n1 = ExampleName /\ last.ext = DefaultExtension) =>
       last.f1 =
          <<"t", "e", "s", "t", "-", "-", "-", "a", "-", "b", "-", "-", "x", "-", ".", "s", "n", "a", "p">>

(***************************************************************************)
(* C13, amended: it maps to "test:-a-b--x-.snap"; the colon is kept.       *)
(***************************************************************************)
C13_Example ==
    (last.kind = "files" /\ last.n1 = ExampleName /\ last.ext = DefaultExtension) =>
       last.f1 =
          <<"t", "e", "s", "t", ":", "-", "a", "-", "b", "-", "-", "x", "-", ".", "s", "n", "a", "p">>

C13_Witness ==
    /\ last.kind = "files" /\ last.n1 = ExampleName /\ last.ext = DefaultExtension
    /\ Len(last.f1) = Len(ExampleName) + Len(DefaultExtension)
    /\ last.f1[5] = ":" /\ last.f1[6] = "-"

(***************************************************************************)
(* C14: the file name of a test is its name with every upper-case letter   *)
(* in lower case, every one of the eight characters ' space < > & # / \    *)
(* replaced by "-" and every other character kept, followed by the         *)
(* extension; equal names have equal file names, and so have two names     *)
(* that differ only in the case of letters or in which of the eight        *)
(* characters they use.                                                    *)
(***************************************************************************)
C14_Eight == {"'", " ", "<", ">", "&", "#", "/", "\\"}

\* ch, as the claim has it in the file name
C14_Char(ch) ==
    IF ch \in C14_Eight THEN "-"
    ELSE IF \E k \in 1..Len(Upper) : Upper[k] = ch
    THEN Lower[CHOOSE k \in 1..Len(Upper) : Upper[k] = ch]
    ELSE ch

\* n and m differ at most in letter case and in which of the eight they use
C14_Alike(n, m) ==
    /\ Len(n) = Len(m)
    /\ \A i \in 1..Len(n) :
          \/ n[i] = m[i]
          \/ n[i] \in C14_Eight /\ m[i] \in C14_Eight
          \/ \E k \in 1..Len(Upper) : {n[i], m[i]} = {Upper[k], Lower[k]}

C14_FilenameDerivation ==
    last.kind = "files" =>
       /\ Len(last.f1) = Len(last.n1) + Len(last.ext)
       /\ \A i \in 1..Len(last.n1) : last.f1[i] = C14_Char(last.n1[i])
       /\ SubSeq(last.f1, Len(last.n1) + 1, Len(last.f1)) = last.ext
       /\ last.n1 = last.n2 => last.f1 = last.f2
       /\ C14_Alike(last.n1, last.n2) => last.f1 = last.f2

\* "A/" and "a " share a file, and a name with ":" and "." keeps both
C14_Witness ==
    /\ last.kind = "files"
    /\ last.n1 = <<"A", "/">> /\ last.n2 = <<"a", " ">>
    /\ last.f1 = last.f2
    /\ last.f1 = <<"a", "-">> \o last.ext

(***************************************************************************)
(* C15, as claimed: with the directory present and a snapshot file that    *)
(* cannot be read (absent, or present and unreadable), every call, in      *)
(* update mode or not, leaves the file equal to the actual bytes and       *)
(* passes, and reports no error.                                           *)
(***************************************************************************)
\* before the call the directory existed and the read of the file fails
ReadFails0 == last.dir0 /\ (Stored0 = NoFile \/ last.fault.read)

C15_UnreadableAlwaysRecords ==
    (Called /\ ReadFails0) =>
       /\ Passed
       /\ files[SnapFile] = last.b
       /\ last.msg = <<>>

(***************************************************************************)
(* C15, amended: such a call goes on to write the snapshot without         *)
(* comparing; when the file write succeeds it leaves the file equal to     *)
(* the actual bytes, changes no other file and passes; when creating,      *)
(* writing or closing the file fails it ends in the fatal failure that     *)
(* reports that error.                                                     *)
(***************************************************************************)
C15_UnreadableRecords ==
    (Called /\ ReadFails0) =>
       /\ Did("readSnapshot") /\ Did("createSnapshot")
       /\ ~Did("bytes.Equal") /\ ~Did("getDiff")
       /\ WriteOk =>
             /\ Passed
             /\ last.msg = <<>>
             /\ files = [last.files0 EXCEPT ![SnapFile] = last.b]
       /\ ~WriteOk =>
             /\ Failed
             /\ Slice(last.msg, 0, Len(MsgCreateFailed)) = MsgCreateFailed
             /\ \/ Contains(last.msg, ErrCreate)
                \/ Contains(last.msg, ErrWrite)
                \/ Contains(last.msg, ErrClose)

\* an unreadable file with other content is replaced, update mode off
C15_Witness ==
    /\ Called /\ ReadFails0 /\ last.fault.read /\ WriteOk
    /\ Stored0 # NoFile /\ Stored0 # last.b
    /\ ~UpdateMode
    /\ Passed /\ files[SnapFile] = last.b

(***************************************************************************)
(* C16: where the working directory is known, New returns the defaults     *)
(* (the directory __snapshots__ under the working directory, 10 context    *)
(* lines, diffable, the extension .snap, no ignore pattern) changed by the *)
(* options in their order, so that every field has the argument of the     *)
(* last option that sets it; and where an IgnoreRegex has a pattern that   *)
(* does not compile, New returns the error and no configuration, having    *)
(* invoked no option after the first that failed.                          *)
(***************************************************************************)
\* the patterns that are no regular expressions
C16_BadPatterns == { <<"(">>, <<"+", "a">> }

C16_Fails(o) == o.opt = "IgnoreRegex" /\ o.arg \in C16_BadPatterns

\* the places of the options that set field f
C16_Setters(options, f) == {i \in 1..Len(options) : options[i].opt = f}

\* the argument of the last option that sets f, or else the default
C16_Field(options, f, default) ==
    IF C16_Setters(options, f) = {} THEN default
    ELSE options[CHOOSE i \in C16_Setters(options, f) :
                    \A j \in C16_Setters(options, f) : j <= i].arg

\* the text that a compiled pattern of the model matches
C16_Matched(r) == IF r = <<"\\", "+", "a">> THEN <<"+", "a">> ELSE r

C16_NewAppliesInOrder ==
    (last.kind = "config" /\ last.getwd.err = <<>>) =>
       IF \E i \in 1..Len(last.options) : C16_Fails(last.options[i])
       THEN /\ last.c = NilConfig
            /\ last.err # <<>>
            /\ Contains(last.err, ErrRegexp)
            /\ last.applied = CHOOSE i \in 1..Len(last.options) :
                                 /\ C16_Fails(last.options[i])
                                 /\ \A j \in 1..(i - 1) : ~C16_Fails(last.options[j])
       ELSE /\ last.err = <<>>
            /\ last.applied = Len(last.options)
            /\ last.c.Directory = C16_Field(last.options, "SnapDirectory", SnapDir)
            /\ last.c.Context = C16_Field(last.options, "ContextLines", 10)
            /\ last.c.Diffable = C16_Field(last.options, "Diffable", TRUE)
            /\ last.c.Extension =
                  C16_Field(last.options, "SnapExtension", <<".", "s", "n", "a", "p">>)
            /\ last.c.ignore =
                  IF C16_Setters(last.options, "IgnoreRegex") = {} THEN NoIgnore
                  ELSE C16_Matched(C16_Field(last.options, "IgnoreRegex", <<>>))

\* the first option fails, and the second is not invoked
C16_Witness ==
    /\ last.kind = "config" /\ last.getwd.err = <<>>
    /\ last.options = <<IgnoreRegex(<<"(">>), Diffable(FALSE)>>
    /\ last.c = NilConfig /\ last.err # <<>> /\ last.applied = 1

(***************************************************************************)
(* C17: a call that ends in a failure leaves the directory and every file  *)
(* as they were before the call, also when the failure is that of creating *)
(* the directory or of creating, writing or closing the file.              *)
(***************************************************************************)
C17_FailureLeavesStateUnchanged ==
    (Called /\ Failed) => Untouched

\* a failed Write has emptied or cut short a stored snapshot
C17_Witness ==
    /\ Called /\ Failed /\ last.fault.wr = "write"
    /\ Stored0 # NoFile /\ Stored0 # <<>>
    /\ files[SnapFile] # Stored0
    /\ files[SnapFile] # last.b

(***************************************************************************)
(* C18: two calls for one snapshot file ran in parallel with different     *)
(* bytes, both wrote the file and both have returned: the file holds       *)
(* exactly the bytes of one of the two calls, and never a mixture of both. *)
(***************************************************************************)
BothReturned == \A p \in Procs : running[p].pc = "done"

BothWrote == \A p \in Procs : running[p].wrote

C18_OneOfTheTwo ==
    (BothReturned /\ BothWrote /\ running[1].b # running[2].b) =>
       files[RaceFile(1)] \in {running[1].b, running[2].b}

\* the file holds a mixture: the bytes of the call whose Write came last, and
\* after them the rest of the longer bytes of the other call
C18_Witness ==
    /\ BothReturned /\ BothWrote /\ running[1].b # running[2].b
    /\ last.kind = "write"
    /\ files[RaceFile(1)] \notin {running[1].b, running[2].b}
    /\ Len(files[RaceFile(1)]) > Len(running[last.proc].b)
    /\ SubSeq(files[RaceFile(1)], 1, Len(running[last.proc].b)) = running[last.proc].b

(***************************************************************************)
(* C19: every call of Config.Assert ends with exactly one outcome, PASS or *)
(* a fatal failure, and a fatal failure is the last thing it does; it      *)
(* makes no step twice, so it writes the snapshot file at most once; it    *)
(* changes no file but the one of the calling test, and creates the        *)
(* directory only through os.MkdirAll; it leaves the configuration as it   *)
(* was given; and the same call made again on the same file system with    *)
(* the same environment ends as the first did and leaves what it found.    *)
(***************************************************************************)
\* no function of the log was called twice
C19_NoRetry ==
    \A i, j \in 1..Len(last.calls) : last.calls[i] = last.calls[j] => i = j

\* one outcome, and the fatal failure ends the call
C19_OneOutcome ==
    /\ last.outcome \in {"PASS", "FATAL"}
    /\ Passed <=> ~Did("t.Fatalf")
    /\ Failed => last.calls[Len(last.calls)] = "t.Fatalf"

\* only the file of the calling test is written, and only by createSnapshot
C19_OwnFileOnly ==
    /\ \A f \in FileNames \ {SnapFile} : files[f] = last.files0[f]
    /\ files # last.files0 => Did("createSnapshot")
    /\ dirExists # last.dir0 => Did("os.MkdirAll")

\* the call before was the same call, on the same file system and environment
C19_SameInputs ==
    /\ Repeated
    /\ last.env = last.first.env
    /\ last.dir0 = last.first.dir0
    /\ Stored0 = last.first.stored0

====
